---- MODULE Spec2Model ----
(***************************************************************************)
(* Model of gemini-rsvp/app.py: the two request handlers generate_rsvp and *)
(* generate_quiz, the upstream call call_gemini, the text clean-up of      *)
(* safe_json_loads, the JSON decoding it ends in, and the validation of    *)
(* the decoded value against QuizPayload / QuizItem.                       *)
(*                                                                         *)
(* A text is a sequence of one-character strings.  A decoded JSON value is *)
(* a record [t, a, k]: t is the type tag, a the characters of an atom,     *)
(* k the children (array elements, or object members tagged "member"       *)
(* whose a is the key and whose k is the one-element list of the value).   *)
(***************************************************************************)
EXTENDS Integers, Sequences, FiniteSets, TLC

\* ------------------------------------------------------------------------
\* Characters
\* ------------------------------------------------------------------------

\* str.strip() / str.split() without argument: the whitespace characters.
Whitespace == {" ", "\n", "\t", "\r", "\f"}

\* json.decoder.WHITESPACE: the characters JSON allows between tokens.
JsonWs == {" ", "\n", "\t", "\r"}

\* Characters below 0x20, which a strict JSON string may not contain raw.
ControlChars == {"\n", "\t", "\r", "\f"}

Digits == {"0", "1", "2", "3", "4", "5", "6", "7", "8", "9"}

\* The grave accent of a code fence.  A TLA+ string cannot hold that
\* character, so the model writes it by name; it is one character of a text.
Backtick == "BACKTICK"

\* ------------------------------------------------------------------------
\* Python string helpers used by the handlers
\* ------------------------------------------------------------------------

RECURSIVE LStripIdx(_, _, _)
\* index of the first character of s, from i on, that is not in cs
LStripIdx(s, i, cs) ==
  IF i <= Len(s) /\ s[i] \in cs THEN LStripIdx(s, i + 1, cs) ELSE i

RECURSIVE RStripIdx(_, _, _)
\* index of the last character of s, up to j, that is not in cs
RStripIdx(s, j, cs) ==
  IF j >= 1 /\ s[j] \in cs THEN RStripIdx(s, j - 1, cs) ELSE j

\* s.strip(cs): drop the characters of cs from both ends only
StripChars(s, cs) ==
  LET i == LStripIdx(s, 1, cs)
      j == RStripIdx(s, Len(s), cs)
  IN  IF i > j THEN <<>> ELSE SubSeq(s, i, j)

\* variant of Strip that trims nothing
Strip_Nothing(s) == s

\* s.strip()
Strip(s) == StripChars(s, Whitespace)

\* s.startswith(p)
StartsWith(s, p) == Len(s) >= Len(p) /\ SubSeq(s, 1, Len(p)) = p

RECURSIVE FindFrom(_, _, _)
\* s.find(c): 1-based index of the first c at or after i, 0 when absent
FindFrom(s, c, i) ==
  IF i > Len(s) THEN 0
  ELSE IF s[i] = c THEN i
  ELSE FindFrom(s, c, i + 1)

Find(s, c) == FindFrom(s, c, 1)

RECURSIVE RFindFrom(_, _, _)
\* s.rfind(c): 1-based index of the last c at or before j, 0 when absent
RFindFrom(s, c, j) ==
  IF j < 1 THEN 0
  ELSE IF s[j] = c THEN j
  ELSE RFindFrom(s, c, j - 1)

RFind(s, c) == RFindFrom(s, c, Len(s))

RECURSIVE SplitFrom(_, _, _, _)
\* s.split(): maximal runs of non-whitespace characters, in order
SplitFrom(s, i, cur, acc) ==
  IF i > Len(s)
  THEN IF cur = <<>> THEN acc ELSE Append(acc, cur)
  ELSE IF s[i] \in Whitespace
       THEN SplitFrom(s, i + 1, <<>>,
                      IF cur = <<>> THEN acc ELSE Append(acc, cur))
       ELSE SplitFrom(s, i + 1, Append(cur, s[i]), acc)

Split(s) == SplitFrom(s, 1, <<>>, <<>>)

RECURSIVE JoinSpace(_)
\* " ".join(ws)
JoinSpace(ws) ==
  IF ws = <<>> THEN <<>>
  ELSE IF Len(ws) = 1 THEN ws[1]
  ELSE ws[1] \o <<" ">> \o JoinSpace(Tail(ws))

\* ------------------------------------------------------------------------
\* Decoded JSON values
\* ------------------------------------------------------------------------

JNull == [t |-> "null", a |-> <<>>, k |-> <<>>]
JBool(cs) == [t |-> "bool", a |-> cs, k |-> <<>>]
JInt(cs) == [t |-> "int", a |-> cs, k |-> <<>>]
JFloat(cs) == [t |-> "float", a |-> cs, k |-> <<>>]
JStr(cs) == [t |-> "str", a |-> cs, k |-> <<>>]
JArr(vs) == [t |-> "arr", a |-> <<>>, k |-> vs]
JObj(ms) == [t |-> "obj", a |-> <<>>, k |-> ms]
Mem(key, v) == [t |-> "member", a |-> key, k |-> <<v>>]

\* key in o, for a decoded object o
HasKey(o, key) == \E i \in 1..Len(o.k) : o.k[i].a = key

\* o.get(key): the value of the key, None when it is absent
Get(o, key) ==
  IF HasKey(o, key)
  THEN o.k[CHOOSE i \in 1..Len(o.k) : o.k[i].a = key].k[1]
  ELSE JNull

\* dict[key] = v while decoding: a repeated key keeps its first position
\* and takes the last value
PutMember(ms, key, v) ==
  IF \E i \in 1..Len(ms) : ms[i].a = key
  THEN [i \in 1..Len(ms) |-> IF ms[i].a = key THEN Mem(key, v) ELSE ms[i]]
  ELSE Append(ms, Mem(key, v))

\* ------------------------------------------------------------------------
\* json.loads
\* ------------------------------------------------------------------------

Fail == [ok |-> FALSE, val |-> JNull, end |-> 0]
Ok(v, e) == [ok |-> TRUE, val |-> v, end |-> e]

SkipWs(s, i) == LStripIdx(s, i, JsonWs)

RECURSIVE ScanString(_, _, _)
\* py_scanstring, strict: i is the index after the opening quote
ScanString(s, i, acc) ==
  IF i > Len(s) THEN Fail
  ELSE IF s[i] = "\"" THEN Ok(JStr(acc), i + 1)
  ELSE IF s[i] \in ControlChars THEN Fail
  ELSE IF s[i] = "\\"
       THEN IF i + 1 > Len(s) THEN Fail
            ELSE IF s[i + 1] \in {"\"", "\\", "/"}
                 THEN ScanString(s, i + 2, Append(acc, s[i + 1]))
            ELSE IF s[i + 1] = "n" THEN ScanString(s, i + 2, Append(acc, "\n"))
            ELSE IF s[i + 1] = "t" THEN ScanString(s, i + 2, Append(acc, "\t"))
            ELSE IF s[i + 1] = "r" THEN ScanString(s, i + 2, Append(acc, "\r"))
            ELSE IF s[i + 1] = "f" THEN ScanString(s, i + 2, Append(acc, "\f"))
            ELSE Fail
       ELSE ScanString(s, i + 1, Append(acc, s[i]))

\* s[i:i+len(w)] == w
Literal(s, i, w) ==
  i + Len(w) - 1 <= Len(s) /\ SubSeq(s, i, i + Len(w) - 1) = w

IsDigitAt(s, i) == i <= Len(s) /\ s[i] \in Digits

\* index after the digits starting at i
ScanDigits(s, i) == LStripIdx(s, i, Digits)

\* NUMBER_RE.match: (-?(?:0|[1-9]\d*))(\.\d+)?([eE][-+]?\d+)?
MatchNumber(s, i) ==
  LET j0 == IF s[i] = "-" THEN i + 1 ELSE i
  IN  IF ~IsDigitAt(s, j0) THEN Fail
      ELSE
        LET j1 == IF s[j0] = "0" THEN j0 + 1 ELSE ScanDigits(s, j0)
            j2 == IF j1 <= Len(s) /\ s[j1] = "." /\ IsDigitAt(s, j1 + 1)
                  THEN ScanDigits(s, j1 + 1) ELSE j1
            ke == IF j2 + 1 <= Len(s) /\ s[j2 + 1] \in {"+", "-"}
                  THEN j2 + 2 ELSE j2 + 1
            j3 == IF j2 <= Len(s) /\ s[j2] \in {"e", "E"} /\ IsDigitAt(s, ke)
                  THEN ScanDigits(s, ke) ELSE j2
            lex == SubSeq(s, i, j3 - 1)
        IN  IF j3 = j1
            THEN Ok(JInt(IF lex = <<"-", "0">> THEN <<"0">> ELSE lex), j3)
            ELSE Ok(JFloat(lex), j3)

W_null == <<"n", "u", "l", "l">>
W_true == <<"t", "r", "u", "e">>
W_false == <<"f", "a", "l", "s", "e">>
W_NaN == <<"N", "a", "N">>
W_Infinity == <<"I", "n", "f", "i", "n", "i", "t", "y">>
W_NegInfinity == <<"-">> \o W_Infinity

RECURSIVE ScanOnce(_, _)
RECURSIVE ScanMembers(_, _, _)
RECURSIVE ScanElements(_, _, _)

\* JSONObject after the opening quote at i - 1: key, colon, value, then
\* "}" or "," and the next key
ScanMembers(s, i, acc) ==
  LET key == ScanString(s, i, <<>>)
  IN  IF ~key.ok THEN Fail
      ELSE
        LET c == SkipWs(s, key.end)
        IN  IF c > Len(s) \/ s[c] # ":" THEN Fail
            ELSE
              LET v == ScanOnce(s, SkipWs(s, c + 1))
              IN  IF ~v.ok THEN Fail
                  ELSE
                    LET ms == PutMember(acc, key.val.a, v.val)
                        d == SkipWs(s, v.end)
                    IN  IF d > Len(s) THEN Fail
                        ELSE IF s[d] = "}" THEN Ok(JObj(ms), d + 1)
                        ELSE IF s[d] # "," THEN Fail
                        ELSE
                          LET q == SkipWs(s, d + 1)
                          IN  IF q > Len(s) \/ s[q] # "\"" THEN Fail
                              ELSE ScanMembers(s, q + 1, ms)

\* JSONArray from the first character of an element at i
ScanElements(s, i, acc) ==
  LET v == ScanOnce(s, i)
  IN  IF ~v.ok THEN Fail
      ELSE
        LET vs == Append(acc, v.val)
            d == SkipWs(s, v.end)
        IN  IF d > Len(s) THEN Fail
            ELSE IF s[d] = "]" THEN Ok(JArr(vs), d + 1)
            ELSE IF s[d] # "," THEN Fail
            ELSE ScanElements(s, SkipWs(s, d + 1), vs)

\* json.scanner.py_make_scanner._scan_once
ScanOnce(s, i) ==
  IF i > Len(s) THEN Fail
  ELSE IF s[i] = "\"" THEN ScanString(s, i + 1, <<>>)
  ELSE IF s[i] = "{"
       THEN LET q == SkipWs(s, i + 1)
            IN  IF q > Len(s) THEN Fail
                ELSE IF s[q] = "}" THEN Ok(JObj(<<>>), q + 1)
                ELSE IF s[q] # "\"" THEN Fail
                ELSE ScanMembers(s, q + 1, <<>>)
  ELSE IF s[i] = "["
       THEN LET q == SkipWs(s, i + 1)
            IN  IF q <= Len(s) /\ s[q] = "]" THEN Ok(JArr(<<>>), q + 1)
                ELSE ScanElements(s, q, <<>>)
  ELSE IF Literal(s, i, W_null) THEN Ok(JNull, i + 4)
  ELSE IF Literal(s, i, W_true) THEN Ok(JBool(W_true), i + 4)
  ELSE IF Literal(s, i, W_false) THEN Ok(JBool(W_false), i + 5)
  ELSE IF MatchNumber(s, i).ok THEN MatchNumber(s, i)
  ELSE IF Literal(s, i, W_NaN) THEN Ok(JFloat(W_NaN), i + 3)
  ELSE IF Literal(s, i, W_Infinity) THEN Ok(JFloat(W_Infinity), i + 8)
  ELSE IF Literal(s, i, W_NegInfinity) THEN Ok(JFloat(W_NegInfinity), i + 9)
  ELSE Fail

\* json.loads(s): one value, whitespace around it, nothing else
Loads(s) ==
  LET v == ScanOnce(s, SkipWs(s, 1))
  IN  IF ~v.ok THEN Fail
      ELSE IF SkipWs(s, v.end) # Len(s) + 1 THEN Fail
      ELSE v

\* ------------------------------------------------------------------------
\* safe_json_loads
\* ------------------------------------------------------------------------

\* "```"
Fence == <<Backtick, Backtick, Backtick>>

\* variant of StripBackticks that removes every backtick of the text
StripBackticks_Everywhere(txt) == SelectSeq(txt, LAMBDA c : c # Backtick)

\* txt.strip("`")
StripBackticks(txt) == StripChars(txt, {Backtick})

\* txt[first_brace:last_brace+1] when both braces are found
BraceSlice(txt) ==
  LET first_brace == Find(txt, "{")
      last_brace == RFind(txt, "}")
  IN  IF first_brace # 0 /\ last_brace # 0
      THEN SubSeq(txt, first_brace, last_brace)
      ELSE txt

\* variant of Fenced that cleans up every text
Fenced_Always(txt) == TRUE

\* does the clean-up branch apply to the trimmed text
Fenced(txt) == StartsWith(txt, Fence)

\* the text handed to json.loads
CleanText(payload) ==
  LET txt == Strip(payload)
  IN  IF Fenced(txt) THEN BraceSlice(StripBackticks(txt)) ELSE txt

safe_json_loads(payload) == Loads(CleanText(payload))

\* ------------------------------------------------------------------------
\* Schemas
\* ------------------------------------------------------------------------

K_texto == <<"t", "e", "x", "t", "o">>
K_preguntas == <<"p", "r", "e", "g", "u", "n", "t", "a", "s">>
K_pregunta == <<"p", "r", "e", "g", "u", "n", "t", "a">>
K_opciones == <<"o", "p", "c", "i", "o", "n", "e", "s">>
K_respuesta == <<"r", "e", "s", "p", "u", "e", "s", "t", "a">>
K_explanation == <<"e", "x", "p", "l", "a", "n", "a", "t", "i", "o", "n">>

AllDigits(cs) == cs # <<>> /\ \A i \in 1..Len(cs) : cs[i] \in Digits

HasDigit(cs) == \E i \in 1..Len(cs) : cs[i] \in Digits

\* int("007") = 7
DropLeadingZeros(cs) ==
  LET i == LStripIdx(cs, 1, {"0"})
  IN  IF i > Len(cs) THEN <<"0">> ELSE SubSeq(cs, i, Len(cs))

\* A field annotated str.  A JSON string is taken as it is; null, a list and
\* an object are refused; a number or a boolean is converted or refused
\* depending on the installed pydantic ("lib").
StrField(v) ==
  IF v.t = "str" THEN "yes"
  ELSE IF v.t \in {"int", "float", "bool"} THEN "lib"
  ELSE "no"

\* A field annotated int.  A JSON integer is taken as it is and a string of
\* digits is converted; null, a list, an object and a string without digits
\* are refused; the rest depends on the installed pydantic ("lib").
IntField(v) ==
  IF v.t = "int" THEN "yes"
  ELSE IF v.t = "str"
       THEN IF AllDigits(v.a) THEN "yes"
            ELSE IF HasDigit(v.a) THEN "lib" ELSE "no"
  ELSE IF v.t \in {"float", "bool"} THEN "lib"
  ELSE "no"

Accepted(verdict, lib) == verdict = "yes" \/ (verdict = "lib" /\ lib)

\* the value a str field holds after validation
StrValue(v) ==
  IF v.t = "str" THEN v.a ELSE <<"str(">> \o v.a \o <<")">>

\* the value an int field holds after validation
IntValue(v) ==
  IF v.t = "int" THEN v.a
  ELSE IF v.t = "str" /\ AllDigits(v.a) THEN DropLeadingZeros(v.a)
  ELSE <<"int(">> \o v.a \o <<")">>

\* opciones: List[str] -- a list, each element a str; no length constraint
OpcionesOk(v, lib) ==
  /\ v.t = "arr"
  /\ \A i \in 1..Len(v.k) : Accepted(StrField(v.k[i]), lib)

\* class QuizItem: all four fields required, other keys ignored
QuizItemOk(v, lib) ==
  /\ v.t = "obj"
  /\ HasKey(v, K_pregunta) /\ Accepted(StrField(Get(v, K_pregunta)), lib)
  /\ HasKey(v, K_opciones) /\ OpcionesOk(Get(v, K_opciones), lib)
  /\ HasKey(v, K_respuesta) /\ Accepted(IntField(Get(v, K_respuesta)), lib)
  /\ HasKey(v, K_explanation)
  /\ Accepted(StrField(Get(v, K_explanation)), lib)

\* the QuizItem built from a valid question object
QuizItem(v) ==
  [pregunta |-> StrValue(Get(v, K_pregunta)),
   opciones |-> [i \in 1..Len(Get(v, K_opciones).k) |->
                   StrValue(Get(v, K_opciones).k[i])],
   respuesta |-> IntValue(Get(v, K_respuesta)),
   explanation |-> StrValue(Get(v, K_explanation))]

\* variant of QuizPayloadOk in which preguntas has a default
QuizPayloadOk_OptionalPreguntas(data, lib) ==
  /\ data.t = "obj"
  /\ HasKey(data, K_texto) /\ Accepted(StrField(Get(data, K_texto)), lib)
  /\ HasKey(data, K_preguntas) =>
       /\ Get(data, K_preguntas).t = "arr"
       /\ \A i \in 1..Len(Get(data, K_preguntas).k) :
            QuizItemOk(Get(data, K_preguntas).k[i], lib)

\* variant of QuizPayloadOk that lets invalid questions through
QuizPayloadOk_AnyQuestion(data, lib) ==
  /\ data.t = "obj"
  /\ HasKey(data, K_texto) /\ Accepted(StrField(Get(data, K_texto)), lib)
  /\ HasKey(data, K_preguntas)
  /\ Get(data, K_preguntas).t = "arr"

\* QuizPayload(**data): data must be a mapping (else TypeError), texto a
\* str, preguntas a list of QuizItem
QuizPayloadOk(data, lib) ==
  /\ data.t = "obj"
  /\ HasKey(data, K_texto) /\ Accepted(StrField(Get(data, K_texto)), lib)
  /\ HasKey(data, K_preguntas)
  /\ Get(data, K_preguntas).t = "arr"
  /\ \A i \in 1..Len(Get(data, K_preguntas).k) :
       QuizItemOk(Get(data, K_preguntas).k[i], lib)

\* variant of QuizPreguntas that returns the questions in reverse order
QuizPreguntas_Reversed(data) ==
  [i \in 1..Len(Get(data, K_preguntas).k) |->
     QuizItem(Get(data, K_preguntas).k[Len(Get(data, K_preguntas).k) + 1 - i])]

\* quiz.preguntas
QuizPreguntas(data) ==
  [i \in 1..Len(Get(data, K_preguntas).k) |->
     QuizItem(Get(data, K_preguntas).k[i])]

\* Field(250, ge=80, le=800) and Field(5, ge=3, le=12)
PalabrasDefault == 250
PalabrasMin == 80
PalabrasMax == 800
NumDefault == 5
NumMin == 3
NumMax == 12

\* a request body: which endpoint it is posted to, whether the required
\* text field (topic / texto) is there, and the two numeric fields
\* (given or left out)
FieldValue(given, v, default) == IF given THEN v ELSE default

PalabrasOk(n) == PalabrasMin <= n /\ n <= PalabrasMax

\* variant of NumPreguntasOk without the lower bound
NumPreguntasOk_NoMin(n) == n <= NumMax

NumPreguntasOk(n) == NumMin <= n /\ n <= NumMax

\* class RSVPIn
RSVPInOk(b) ==
  /\ b.has_text
  /\ PalabrasOk(FieldValue(b.po_given, b.po, PalabrasDefault))
  /\ NumPreguntasOk(FieldValue(b.np_given, b.np, NumDefault))

\* class QuizIn: palabras_objetivo is not a field of it
QuizInOk(b) ==
  /\ b.has_text
  /\ NumPreguntasOk(FieldValue(b.np_given, b.np, NumDefault))

\* ------------------------------------------------------------------------
\* What the hosted model may answer (the input of call_gemini)
\* ------------------------------------------------------------------------

\* json.dumps of a string
RECURSIVE DumpsChars(_)
DumpsChars(cs) ==
  IF cs = <<>> THEN <<>>
  ELSE (IF Head(cs) \in {"\"", "\\"} THEN <<"\\", Head(cs)>>
        ELSE IF Head(cs) = "\n" THEN <<"\\", "n">>
        ELSE IF Head(cs) = "\t" THEN <<"\\", "t">>
        ELSE IF Head(cs) = "\r" THEN <<"\\", "r">>
        ELSE IF Head(cs) = "\f" THEN <<"\\", "f">>
        ELSE <<Head(cs)>>) \o DumpsChars(Tail(cs))

RECURSIVE Dumps(_)
RECURSIVE DumpsList(_, _)

\* json.dumps(v) with the default separators ", " and ": "
Dumps(v) ==
  IF v.t = "null" THEN W_null
  ELSE IF v.t \in {"bool", "int", "float"} THEN v.a
  ELSE IF v.t = "str" THEN <<"\"">> \o DumpsChars(v.a) \o <<"\"">>
  ELSE IF v.t = "arr" THEN <<"[">> \o DumpsList(v.k, 1) \o <<"]">>
  ELSE IF v.t = "obj" THEN <<"{">> \o DumpsList(v.k, 1) \o <<"}">>
  ELSE <<"\"">> \o DumpsChars(v.a) \o <<"\"", ":", " ">> \o Dumps(v.k[1])

DumpsList(vs, i) ==
  IF i > Len(vs) THEN <<>>
  ELSE Dumps(vs[i]) \o (IF i < Len(vs) THEN <<",", " ">> ELSE <<>>)
       \o DumpsList(vs, i + 1)

\* a question as the model writes it, and as the item the service should
\* return for it
QVal(q) ==
  JObj(<<Mem(K_pregunta, JStr(q.pregunta)),
         Mem(K_opciones, JArr([i \in 1..Len(q.opciones) |->
                                 JStr(q.opciones[i])])),
         Mem(K_respuesta, JInt(q.respuesta)),
         Mem(K_explanation, JStr(q.explanation))>>)

GoodItems ==
  << [pregunta |-> <<"a", "?">>,
      opciones |-> << <<"a">>, <<"b">>, <<"c">>, <<"d">> >>,
      respuesta |-> <<"0">>, explanation |-> <<"x">>],
     [pregunta |-> <<"{", Backtick, "b", "}">>,
      opciones |-> << <<"}">>, <<Backtick, Backtick, Backtick>> >>,
      respuesta |-> <<"1">>, explanation |-> <<Backtick, "{">>],
     [pregunta |-> <<"c", " ", "d">>,
      opciones |-> << <<"1">>, <<"2">>, <<"3">> >>,
      respuesta |-> <<"1", "2">>, explanation |-> <<>>] >>

\* the i-th question of a well-formed reply
GoodItem(i) == GoodItems[((i - 1) % Len(GoodItems)) + 1]

\* question objects no version of the validation accepts
BadQuestions ==
  << JObj(<<Mem(K_pregunta, JStr(<<"a">>)),
            Mem(K_opciones, JArr(<<JStr(<<"a">>)>>)),
            Mem(K_respuesta, JInt(<<"0">>))>>),
     JObj(<<Mem(K_opciones, JArr(<<JStr(<<"a">>)>>)),
            Mem(K_respuesta, JInt(<<"0">>)),
            Mem(K_explanation, JStr(<<"x">>))>>),
     JObj(<<Mem(K_pregunta, JStr(<<"a">>)),
            Mem(K_opciones, JArr(<<JStr(<<"a">>)>>)),
            Mem(K_respuesta, JNull),
            Mem(K_explanation, JStr(<<"x">>))>>),
     JObj(<<Mem(K_pregunta, JStr(<<"a">>)),
            Mem(K_opciones, JArr(<<JStr(<<"a">>)>>)),
            Mem(K_respuesta, JStr(<<"u", "n", "o">>)),
            Mem(K_explanation, JStr(<<"x">>))>>),
     JObj(<<Mem(K_pregunta, JStr(<<"a">>)),
            Mem(K_opciones, JStr(<<"a">>)),
            Mem(K_respuesta, JInt(<<"0">>)),
            Mem(K_explanation, JStr(<<"x">>))>>),
     JObj(<<Mem(K_pregunta, JStr(<<"a">>)),
            Mem(K_opciones, JArr(<<JStr(<<"a">>), JNull>>)),
            Mem(K_respuesta, JInt(<<"0">>)),
            Mem(K_explanation, JStr(<<"x">>))>>),
     JObj(<<Mem(K_pregunta, JArr(<<JStr(<<"a">>)>>)),
            Mem(K_opciones, JArr(<<JStr(<<"a">>)>>)),
            Mem(K_respuesta, JInt(<<"0">>)),
            Mem(K_explanation, JStr(<<"x">>))>>),
     JStr(<<"a">>) >>

\* question objects whose acceptance depends on the installed pydantic
LibQuestions ==
  << JObj(<<Mem(K_pregunta, JInt(<<"5">>)),
            Mem(K_opciones, JArr(<<JStr(<<"a">>)>>)),
            Mem(K_respuesta, JInt(<<"0">>)),
            Mem(K_explanation, JStr(<<"x">>))>>),
     JObj(<<Mem(K_pregunta, JStr(<<"a">>)),
            Mem(K_opciones, JArr(<<JStr(<<"a">>)>>)),
            Mem(K_respuesta, JBool(W_true)),
            Mem(K_explanation, JStr(<<"x">>))>>) >>

\* a question with no options at all
EmptyOpcionesItem ==
  [pregunta |-> <<"e">>, opciones |-> <<>>,
   respuesta |-> <<"0">>, explanation |-> <<"x">>]

QuizDoc(texto, qs) ==
  JObj(<<Mem(K_texto, texto), Mem(K_preguntas, JArr(qs))>>)

\* the questions of a reply of n questions, all well formed but the one at
\* position at (0: none), which is the value bad
Questions(n, at, bad) ==
  [i \in 1..n |-> IF i = at THEN bad ELSE QVal(GoodItem(i))]

\* the items the service should return for such a reply when the question
\* at position at is the well-formed item it
Items(n, at, it) == [i \in 1..n |-> IF i = at THEN it ELSE GoodItem(i)]

\* the largest number of questions in a reply, and the largest reply in
\* which one question is replaced by a bad one
MaxQuestions == 12
MaxBadLen == 4

NoWrap == [head |-> <<>>, pre |-> <<>>, post |-> <<>>, tail |-> <<>>]

W_json == <<"j", "s", "o", "n">>

\* the fences the hosted model puts around a reply
FenceWraps ==
  { [NoWrap EXCEPT !.head = Fence, !.tail = Fence],
    [NoWrap EXCEPT !.head = Fence \o W_json \o <<"\n">>,
                   !.tail = <<"\n">> \o Fence],
    [NoWrap EXCEPT !.head = <<" ", "\n">> \o Fence \o <<"\n">>,
                   !.tail = <<"\n">> \o Fence \o <<"\n">>] }

\* whitespace around a reply, which call_gemini trims
PadWraps == { [NoWrap EXCEPT !.head = <<"\n", " ">>, !.tail = <<" ", "\n">>] }

\* commentary before or after the object: short texts with a character
\* that is not whitespace and without braces, quotes or brackets
MaxComment == 2
CommentChars == {"a", "1", ":", " "}

Texts(cs, n) == UNION {[1..m -> cs] : m \in 0..n}

Commentary ==
  {c \in Texts(CommentChars, MaxComment) : \E i \in 1..Len(c) : c[i] # " "}

CommentWraps ==
  {[NoWrap EXCEPT !.pre = c] : c \in Commentary}
  \cup {[NoWrap EXCEPT !.post = c] : c \in Commentary}
  \cup {[NoWrap EXCEPT !.pre = <<"a", ":", " ">>, !.post = c] :
          c \in Commentary}

\* the same, after a leading fence marker (closed by a fence or not)
FencedCommentWraps ==
  {[w EXCEPT !.head = Fence] : w \in CommentWraps}
  \cup {[w EXCEPT !.head = Fence, !.tail = Fence] : w \in CommentWraps}

Sent(kind, n, at, doc, items, w) ==
  [kind |-> kind, n |-> n, at |-> at, doc |-> doc, items |-> items,
   head |-> w.head, pre |-> w.pre, post |-> w.post, tail |-> w.tail]

\* well-formed replies with n questions
WellFormedReplies ==
  {Sent("wellformed", n, 0,
        QuizDoc(JStr(<<"r">>), Questions(n, 0, JNull)), Items(n, 0, JNull), w) :
     n \in 0..MaxQuestions, w \in {NoWrap} \cup FenceWraps \cup PadWraps}

\* well-formed replies with commentary around them
CommentedReplies ==
  {Sent("wellformed", n, 0,
        QuizDoc(JStr(<<"r">>), Questions(n, 0, JNull)), Items(n, 0, JNull), w) :
     n \in {1, NumMin}, w \in CommentWraps \cup FencedCommentWraps}

\* replies in which one question object is invalid
OneBadReplies ==
  {Sent("onebad", r[1], r[2],
        QuizDoc(JStr(<<"r">>), Questions(r[1], r[2], BadQuestions[r[3]])),
        <<>>, r[4]) :
     r \in {x \in (1..MaxBadLen) \X (1..MaxBadLen) \X (1..Len(BadQuestions))
                  \X ({NoWrap} \cup FenceWraps) : x[2] <= x[1]}}

\* replies in which one question object depends on the installed pydantic
LibReplies ==
  {Sent("lib", r[1], r[2],
        QuizDoc(JStr(<<"r">>), Questions(r[1], r[2], LibQuestions[r[3]])),
        <<>>, NoWrap) :
     r \in {x \in (1..MaxBadLen) \X (1..MaxBadLen) \X (1..Len(LibQuestions)) :
              x[2] <= x[1]}}

\* replies in which one question has an empty list of options
EmptyOpcionesReplies ==
  {Sent("emptyopciones", r[1], r[2],
        QuizDoc(JStr(<<"r">>), Questions(r[1], r[2], QVal(EmptyOpcionesItem))),
        Items(r[1], r[2], EmptyOpcionesItem), r[3]) :
     r \in {x \in (1..MaxBadLen) \X (1..MaxBadLen) \X ({NoWrap} \cup FenceWraps) :
              x[2] <= x[1]}}

\* JSON objects without the key preguntas
NoPreguntasDocs ==
  { JObj(<<>>),
    JObj(<<Mem(K_texto, JStr(<<"r">>))>>),
    JObj(<<Mem(K_texto, JStr(<<"r">>)),
           Mem(<<"i", "t", "e", "m", "s">>, JArr(Questions(NumMin, 0, JNull)))>>),
    JObj(<<Mem(K_pregunta, JArr(Questions(NumMin, 0, JNull)))>>),
    JObj(<<Mem(K_texto, JNull)>>) }

NoPreguntasReplies ==
  {Sent("nopreguntas", 0, 0, d, <<>>, w) :
     d \in NoPreguntasDocs, w \in {NoWrap} \cup FenceWraps \cup PadWraps}

\* JSON values that have the key preguntas and are wrong elsewhere
BadTopDocs ==
  { JObj(<<Mem(K_preguntas, JArr(Questions(NumMin, 0, JNull)))>>),
    QuizDoc(JNull, Questions(NumMin, 0, JNull)),
    JObj(<<Mem(K_texto, JStr(<<"r">>)), Mem(K_preguntas, JNull)>>),
    JObj(<<Mem(K_texto, JStr(<<"r">>)),
           Mem(K_preguntas, QVal(GoodItem(1)))>>),
    JObj(<<Mem(K_texto, JStr(<<"r">>)),
           Mem(K_preguntas, JStr(<<"a">>))>>) }

BadTopReplies ==
  {Sent("badtop", 0, 0, d, <<>>, w) : d \in BadTopDocs,
     w \in {NoWrap} \cup FenceWraps}

\* replies that are no JSON object: every short text over RawChars, and
\* some longer ones
MaxRaw == 3
RawChars == {"[", "]", "1", "\"", "a", "{", "}", ","}

RawTexts ==
  Texts(RawChars, MaxRaw)
  \cup { W_null, W_true, <<"1", "2", "3">>,
         <<"\"", "a", "b", "c", "\"">>,
         <<"[", "1", ",", " ", "n", "u", "l", "l", "]">>,
         <<"N", "o", " ", "p", "u", "e", "d", "o", " ", "a", "y", "u", "d",
           "a", "r", " ", "c", "o", "n", " ", "e", "s", "o", ".">> }

RawReplies ==
  {Sent("raw", 0, 0, JNull, <<>>, [w EXCEPT !.pre = x]) :
     x \in RawTexts, w \in {NoWrap} \cup FenceWraps}

QuizReplies ==
  WellFormedReplies \cup CommentedReplies \cup OneBadReplies \cup LibReplies
  \cup EmptyOpcionesReplies \cup NoPreguntasReplies \cup BadTopReplies
  \cup RawReplies

\* the passages the hosted model may write: every short text over TextChars
MaxText == 4
TextChars == {"a", "b", " ", "\n", "\t"}

TextReplies ==
  {Sent("text", 0, 0, JNull, <<>>, [NoWrap EXCEPT !.pre = x]) :
     x \in Texts(TextChars, MaxText)}

\* resp.text
ReplyText(u) ==
  u.head \o u.pre \o (IF u.kind \in {"raw", "text"} THEN <<>> ELSE Dumps(u.doc))
  \o u.post \o u.tail

\* resp.candidates is empty
NoCandidates == Sent("nocandidates", 0, 0, JNull, <<>>, NoWrap)

\* no call made yet
NoReply == Sent("none", 0, 0, JNull, <<>>, NoWrap)

\* ------------------------------------------------------------------------
\* Requests
\* ------------------------------------------------------------------------

Body(has_text, po_given, po, np_given, np) ==
  [has_text |-> has_text, po_given |-> po_given, po |-> po,
   np_given |-> np_given, np |-> np]

NoBody == Body(FALSE, FALSE, 0, FALSE, 0)

PalabrasInputs == {PalabrasMin - 1, PalabrasMin, PalabrasMax, PalabrasMax + 1}

NumInputs == {NumMin - 1, NumMin, NumMax, NumMax + 1}

\* bodies posted to /api/rsvp
RsvpBodies ==
  {Body(h, pg, IF pg THEN po ELSE 0, ng, IF ng THEN np ELSE 0) :
     h \in BOOLEAN, pg \in BOOLEAN, po \in PalabrasInputs,
     ng \in BOOLEAN, np \in NumInputs}

\* bodies posted to /api/quiz; one that carries palabras_objetivo, which
\* QuizIn does not declare, is validated without it
QuizBodies ==
  {Body(h, pg, IF pg THEN PalabrasMin - 1 ELSE 0, ng, IF ng THEN np ELSE 0) :
     h \in BOOLEAN, pg \in BOOLEAN, ng \in BOOLEAN, np \in NumInputs}

\* ------------------------------------------------------------------------
\* The service
\* ------------------------------------------------------------------------

VARIABLES
  endpoint,   \* the route of the request: "", "rsvp" or "quiz"
  pc,         \* where the request is: "idle", "generate_rsvp",
              \* "generate_quiz" (handler entered, upstream not yet called),
              \* "rsvp_texto", "quiz_raw" (call_gemini returned), "done"
  lib,        \* whether the installed pydantic makes the conversions that
              \* depend on its version
  body,       \* the request body
  prompt,     \* the prompt handed to call_gemini
  calls,      \* number of calls of model.generate_content
  sent,       \* what the hosted model answered
  raw,        \* the return value of call_gemini
  status,     \* HTTP status of the response, 0 while there is none
  detail,     \* detail of the error response
  id,         \* whether the response carries a fresh uuid4
  texto,      \* RSVPOut.texto
  palabras,   \* RSVPOut.palabras
  preguntas   \* QuizOut.preguntas

vars ==
  <<endpoint, pc, lib, body, prompt, calls, sent, raw, status, detail, id, texto,
    palabras, preguntas>>

NoPrompt == [template |-> "", n |-> 0]

D_None == ""
D_Request == "request validation error"
D_Empty == "Gemini no devolvio contenido"
D_Json == "Respuesta de Gemini no es JSON valido"
D_Quiz == "Estructura de quiz invalida"

Init ==
  /\ endpoint = ""
  /\ pc = "idle"
  /\ lib \in BOOLEAN
  /\ body = NoBody
  /\ prompt = NoPrompt
  /\ calls = 0
  /\ sent = NoReply
  /\ raw = <<>>
  /\ status = 0
  /\ detail = D_None
  /\ id = FALSE
  /\ texto = <<>>
  /\ palabras = <<>>
  /\ preguntas = <<>>

\* the response of the framework to a body the request model refuses
Reject ==
  /\ pc' = "done"
  /\ status' = 422
  /\ detail' = D_Request
  /\ UNCHANGED <<prompt>>

\* POST /api/rsvp: the body is validated against RSVPIn; generate_rsvp is
\* entered only with a valid payload and formats PROMPT_TEXTO
PostRsvp ==
  /\ pc = "idle"
  /\ endpoint' = "rsvp"
  /\ \E b \in RsvpBodies :
       /\ body' = b
       /\ IF RSVPInOk(b)
          THEN /\ pc' = "generate_rsvp"
               /\ prompt' = [template |-> "PROMPT_TEXTO",
                             n |-> FieldValue(b.po_given, b.po, PalabrasDefault)]
               /\ UNCHANGED <<status, detail>>
          ELSE Reject
  /\ UNCHANGED <<lib, calls, sent, raw, id, texto, palabras, preguntas>>

\* POST /api/quiz: the body is validated against QuizIn; generate_quiz is
\* entered only with a valid payload and formats PROMPT_QUIZ
PostQuiz ==
  /\ pc = "idle"
  /\ endpoint' = "quiz"
  /\ \E b \in QuizBodies :
       /\ body' = b
       /\ IF QuizInOk(b)
          THEN /\ pc' = "generate_quiz"
               /\ prompt' = [template |-> "PROMPT_QUIZ",
                             n |-> FieldValue(b.np_given, b.np, NumDefault)]
               /\ UNCHANGED <<status, detail>>
          ELSE Reject
  /\ UNCHANGED <<lib, calls, sent, raw, id, texto, palabras, preguntas>>

\* what the hosted model may answer to a prompt
Replies(p) ==
  {NoCandidates}
  \cup (IF p.template = "PROMPT_TEXTO" THEN TextReplies ELSE QuizReplies)

\* call_gemini(prompt): one call of generate_content; no candidates raises
\* the 502, otherwise the trimmed text is returned to the handler
call_gemini ==
  /\ pc \in {"generate_rsvp", "generate_quiz"}
  /\ calls' = calls + 1
  /\ \E u \in Replies(prompt) :
       /\ sent' = u
       /\ IF u.kind = "nocandidates"
          THEN /\ pc' = "done"
               /\ status' = 502
               /\ detail' = D_Empty
               /\ raw' = raw
          ELSE /\ pc' = IF pc = "generate_rsvp" THEN "rsvp_texto"
                        ELSE "quiz_raw"
               /\ raw' = Strip(ReplyText(u))
               /\ UNCHANGED <<status, detail>>
  /\ UNCHANGED <<endpoint, lib, body, prompt, id, texto, palabras, preguntas>>

\* generate_rsvp after the call: split and return
generate_rsvp ==
  /\ pc = "rsvp_texto"
  /\ pc' = "done"
  /\ texto' = raw
  /\ palabras' = Split(raw)
  /\ id' = TRUE
  /\ status' = 200
  /\ UNCHANGED <<endpoint, lib, body, prompt, calls, sent, raw, detail,
               preguntas>>

\* variant of QuizResponse that catches validation errors only: a decoded
\* value that is no mapping escapes as a server error
QuizResponse_Uncaught(payload, l) ==
  LET data == safe_json_loads(payload)
  IN  IF ~data.ok
      THEN [status |-> 502, detail |-> D_Json, id |-> FALSE,
            preguntas |-> <<>>]
      ELSE IF data.val.t # "obj"
      THEN [status |-> 500, detail |-> D_None, id |-> FALSE,
            preguntas |-> <<>>]
      ELSE IF ~QuizPayloadOk(data.val, l)
      THEN [status |-> 422, detail |-> D_Quiz, id |-> FALSE,
            preguntas |-> <<>>]
      ELSE [status |-> 200, detail |-> D_None, id |-> TRUE,
            preguntas |-> QuizPreguntas(data.val)]

\* the response generate_quiz builds from the text call_gemini returned:
\* json.loads failing is the 502, QuizPayload(**data) failing is the 422,
\* otherwise the validated questions are returned under a fresh id
QuizResponse(payload, l) ==
  LET data == safe_json_loads(payload)
  IN  IF ~data.ok
      THEN [status |-> 502, detail |-> D_Json, id |-> FALSE,
            preguntas |-> <<>>]
      ELSE IF ~QuizPayloadOk(data.val, l)
      THEN [status |-> 422, detail |-> D_Quiz, id |-> FALSE,
            preguntas |-> <<>>]
      ELSE [status |-> 200, detail |-> D_None, id |-> TRUE,
            preguntas |-> QuizPreguntas(data.val)]

\* variant of generate_quiz that calls the hosted model again when the
\* reply does not decode
generate_quiz_Retry ==
  /\ pc = "quiz_raw"
  /\ \E r \in {QuizResponse(raw, lib)} :
       IF r.detail = D_Json
       THEN /\ pc' = "generate_quiz"
            /\ UNCHANGED <<status, detail, id, preguntas>>
       ELSE /\ pc' = "done"
            /\ status' = r.status
            /\ detail' = r.detail
            /\ id' = r.id
            /\ preguntas' = r.preguntas
  /\ UNCHANGED <<endpoint, lib, body, prompt, calls, sent, raw, texto,
                 palabras>>

\* generate_quiz after the call: decode, validate, return
generate_quiz ==
  /\ pc = "quiz_raw"
  /\ pc' = "done"
  /\ \E r \in {QuizResponse(raw, lib)} :
         /\ status' = r.status
         /\ detail' = r.detail
         /\ id' = r.id
         /\ preguntas' = r.preguntas
  /\ UNCHANGED <<endpoint, lib, body, prompt, calls, sent, raw, texto,
                 palabras>>

Next == PostRsvp \/ PostQuiz \/ call_gemini \/ generate_rsvp \/ generate_quiz

Spec == Init /\ [][Next]_vars

\* ------------------------------------------------------------------------
\* Properties
\* ------------------------------------------------------------------------

\* generate_quiz has answered a reply of the hosted model that had text
QuizAnswered ==
  pc = "done" /\ endpoint = "quiz" /\ sent.kind \notin {"none", "nocandidates"}

NoBrace(txt) == Find(txt, "{") = 0

\* the text of a reply without "{" that is left once the fence characters
\* are taken off both ends
Unfenced(txt) == IF Fenced(txt) THEN StripBackticks(txt) ELSE txt

JsonError == status = 502 /\ detail = D_Json

QuizError == status = 422 /\ detail = D_Quiz

\* C1 as stated: every reply without a "{" character ends in the JSON-parse
\* error (502) and never in the structural-validation error (422).
C1_NoBraceIsJsonError ==
  (QuizAnswered /\ NoBrace(ReplyText(sent))) => JsonError

\* C1 amended: a reply without a "{" character never succeeds; it ends in
\* the JSON-parse error (502) exactly when its text, trimmed and with the
\* backticks taken off both ends if it starts with a fence, is not a JSON
\* value, and in the structural-validation error (422) when that text is a
\* JSON value (array, number, string, null, true, false).
C1_NoBraceByJsonValidity ==
  (QuizAnswered /\ NoBrace(ReplyText(sent))) =>
    IF Loads(Unfenced(raw)).ok THEN QuizError ELSE JsonError

\* a fenced, brace-free reply that is a JSON value was answered with the 422
C1_Witness ==
  /\ QuizAnswered
  /\ NoBrace(ReplyText(sent))
  /\ Fenced(raw)
  /\ Loads(Unfenced(raw)).val.t = "arr"
  /\ QuizError

\* the reply is a JSON object wrapped in a code fence and nothing else
FenceWrapped ==
  /\ sent.kind \notin {"none", "nocandidates", "raw", "text"}
  /\ StartsWith(Strip(sent.head), Fence)
  /\ StartsWith(Strip(sent.tail), Fence)
  /\ sent.pre = <<>>
  /\ sent.post = <<>>

\* C2: a valid JSON object wrapped in a code fence (with or without a
\* label) decodes to the same value as the object unwrapped, and
\* generate_quiz answers it as it answers the object unwrapped.
C2_FenceSameAsUnwrapped ==
  (pc = "done" /\ endpoint = "quiz" /\ FenceWrapped) =>
    /\ Loads(Dumps(sent.doc)).ok
    /\ safe_json_loads(raw) = Loads(Dumps(sent.doc))
    /\ [status |-> status, detail |-> detail, id |-> id,
        preguntas |-> preguntas] = QuizResponse(Dumps(sent.doc), lib)

\* a fenced object with backticks and braces inside its strings was
\* answered with the questions
C2_Witness ==
  /\ pc = "done" /\ endpoint = "quiz" /\ FenceWrapped
  /\ sent.head = Fence \o W_json \o <<"\n">>
  /\ sent.kind = "wellformed" /\ sent.n = 2
  /\ status = 200
  /\ preguntas[2].explanation = <<Backtick, "{">>

\* C3: a reply that is a valid JSON object without the key preguntas ends
\* in the structural-validation error (422), not in the JSON-parse error.
C3_MissingPreguntasIsQuizError ==
  (QuizAnswered /\ Loads(raw).ok /\ Loads(raw).val.t = "obj"
     /\ ~HasKey(Loads(raw).val, K_preguntas)) => QuizError

\* an object with texto and without preguntas was answered with the 422
C3_Witness ==
  /\ QuizAnswered
  /\ sent.kind = "nopreguntas"
  /\ Loads(raw).ok
  /\ HasKey(Loads(raw).val, K_texto)
  /\ ~HasKey(Loads(raw).val, K_preguntas)
  /\ QuizError

RsvpReturned == pc = "done" /\ endpoint = "rsvp" /\ status = 200

NoSpaceRun(txt) ==
  \A i \in 1..(Len(txt) - 1) : ~(txt[i] = " " /\ txt[i + 1] = " ")

\* C4 as stated: when the returned text has no run of two or more spaces,
\* joining the returned words with single spaces gives the returned text,
\* whatever else the text contains.
C4_JoinRebuildsText ==
  (RsvpReturned /\ NoSpaceRun(texto)) => JoinSpace(palabras) = texto

\* C4 amended: when the returned text has no run of two or more spaces and
\* no whitespace character other than the space (no newline, no tab),
\* joining the returned words with single spaces gives the returned text.
C4_JoinRebuildsSpacedText ==
  (RsvpReturned /\ NoSpaceRun(texto)
     /\ \A i \in 1..Len(texto) : texto[i] \notin (Whitespace \ {" "}))
    => JoinSpace(palabras) = texto

\* a text of two words separated by one space was returned and rebuilt
C4_Witness ==
  /\ RsvpReturned
  /\ Len(palabras) = 2
  /\ texto = <<"a", " ", "b">>
  /\ Len(ReplyText(sent)) > Len(texto)
  /\ JoinSpace(palabras) = texto

\* a numeric field of the body is outside the range its route declares
OutOfRange ==
  \/ endpoint = "rsvp" /\ body.po_given /\ (body.po < 80 \/ body.po > 800)
  \/ endpoint \in {"rsvp", "quiz"} /\ body.np_given
       /\ (body.np < 3 \/ body.np > 12)

\* C5: a request with a numeric field outside its declared range is
\* answered with a client error and the hosted model is never called for it.
C5_OutOfRangeNeverCalls ==
  OutOfRange => (pc = "done" /\ status = 422 /\ detail = D_Request
                 /\ calls = 0 /\ sent = NoReply)

\* a passage request that is fine but for num_preguntas was refused
C5_Witness ==
  /\ endpoint = "rsvp" /\ pc = "done"
  /\ body.has_text
  /\ body.po_given /\ body.po = 80
  /\ body.np_given /\ body.np = 13
  /\ status = 422 /\ calls = 0

\* the reply is a well-formed quiz object and nothing else
PlainWellFormed ==
  /\ sent.kind = "wellformed"
  /\ sent.pre = <<>> /\ sent.post = <<>>
  /\ Strip(sent.head) = <<>> /\ Strip(sent.tail) = <<>>

\* C6: a well-formed reply with n question objects, 3 <= n <= 12, is
\* answered with exactly those n questions, in the same order and with the
\* same field values.
C6_WellFormedKeepsQuestions ==
  (pc = "done" /\ endpoint = "quiz" /\ PlainWellFormed
     /\ sent.n >= 3 /\ sent.n <= 12) =>
    /\ status = 200
    /\ Len(preguntas) = sent.n
    /\ preguntas = sent.items

\* a reply of twelve questions was answered with the twelve
C6_Witness ==
  /\ pc = "done" /\ endpoint = "quiz" /\ PlainWellFormed
  /\ sent.n = 12
  /\ status = 200
  /\ Len(preguntas) = 12
  /\ preguntas[1] # preguntas[2]

\* C7: an accepted request makes exactly one call of the hosted model,
\* whatever its outcome; none is made before the handler calls, and no
\* failure leads to a second one.
C7_ExactlyOneCall ==
  /\ calls <= 1
  /\ pc \in {"rsvp_texto", "quiz_raw"} => calls = 1
  /\ (pc = "done" /\ detail # D_Request) => calls = 1

\* a quiz request ended in the JSON-parse error after its one call
C7_Witness ==
  /\ pc = "done" /\ endpoint = "quiz"
  /\ JsonError
  /\ calls = 1

C9_EmptyOpcionesIsQuizError ==
  (pc = "done" /\ endpoint = "quiz" /\ sent.kind = "emptyopciones")
    => QuizError

\* the reply has commentary before or after a well-formed quiz object
Commented ==
  /\ sent.kind = "wellformed"
  /\ sent.pre # <<>> \/ sent.post # <<>>

====
